---- MODULE Spec2Model ----
(***************************************************************************)
(* Package cbcli: a task registry (TaskContainer), the synchronous runner  *)
(* RunTask with its duration watchdog, the command-line entry Execute and  *)
(* the cron dispatcher DispatchTasks.                                      *)
(*                                                                         *)
(* Two builds of the package are modelled, selected by `variant`:          *)
(*   "cli"    - src/cli.go           (config gate, watchdog, inline mode)  *)
(*   "legacy" - src/unnamed/part_000 (schedule is mandatory, Execute       *)
(*              exits the process, children get a "start-task" token)      *)
(*                                                                         *)
(* Time is counted in ticks; time.Second is `Second` ticks, so that the    *)
(* integer division of the watchdog message is a real division.            *)
(*                                                                         *)
(* Atomicity.  Every action holds at most one access to data shared        *)
(* between goroutines (the `running` pointer of an invocation).  The       *)
(* statements of one goroutine around such an access touch only its own    *)
(* locals and the collaborators, and are folded into the same action:      *)
(*   lookup, `go` watchdog, "Running task" log    -> RunTask / Execute /   *)
(*                                                   firing                *)
(*   running = &trueVariable, entry into Run()    -> SetRunning            *)
(*   return of Run(), running = &falseVariable,                            *)
(*   "Finished" log, return, caller's handling    -> RunReturns            *)
(*   Sleep, elapsed += Second, threshold test,                             *)
(*   read of *running, report                     -> WatchdogSleep         *)
(***************************************************************************)
EXTENDS Integers, Sequences, FiniteSets, TLC

VARIABLES
    variant,       \* which build of the package runs
    phase,         \* "setup" until the host enters Execute/RunTask/DispatchTasks
    tasks,         \* TaskContainer.tasks
    config,        \* TaskContainer.config: NoConfig (nil) or the table the collaborator answers from
    dispatchEnvs,  \* TaskContainer.dispatchEnvs
    crontab,       \* entries registered with the cron engine (task indexes)
    started,       \* crontab.Start() was called
    regErrors,     \* ErrorHandler.Error calls made by DispatchTasks itself
    calls,         \* RunTask/Execute invocations, one record each
    firings,       \* cron callback invocations, one record each
    proc           \* the process: "alive", "exit0", "exit1", or the panic that ended it

vars == <<variant, phase, tasks, config, dispatchEnvs, crontab, started,
          regErrors, calls, firings, proc>>

-----------------------------------------------------------------------------
(* Bounds of the model *)

MaxTasks == 2
MaxFirings == 2

(* time.Second, in ticks *)
Second == 2

Groups == {"cache", "reports"}
Names == {"warm", "daily"}

-----------------------------------------------------------------------------
(* Values *)

\* An error value (Go `error`); kind "nil" is the nil error, "unset" no value.
Err(kind, group, name, n) == [kind |-> kind, group |-> group, name |-> name, n |-> n]
Nil == Err("nil", "", "", 0)
Unset == Err("unset", "", "", 0)

\* var TaskNotFound = errors.New("task not found")
TaskNotFound == Err("task not found", "", "", 0)

\* The failure that Run() of the task registered at index i returns.
RunError(ts, i) == Err("run failed", ts[i].group, ts[i].name, i)

\* A task as the registry sees it: identity plus the optional capabilities
\* ScheduledTask, GoroutineConfigurableTask and ErrorAfterDurationTask.
Task(group, name, isSched, schedule, isGoConf, inGoroutine, isErrAfter, errorAfter) ==
    [group |-> group, name |-> name,
     isScheduled |-> isSched, schedule |-> schedule,
     isGoroutineConfigurable |-> isGoConf, inGoroutine |-> inGoroutine,
     isErrorAfter |-> isErrAfter, errorAfter |-> errorAfter]

\* The tasks a host may register.
TaskCatalog ==
    { Task("cache", "warm", TRUE, "* * * * *", TRUE, TRUE, TRUE, Second),
      Task("cache", "warm", TRUE, "manual", FALSE, FALSE, TRUE, Second + 1),
      Task("reports", "daily", TRUE, "0 0 * * *", TRUE, FALSE, FALSE, 0),
      Task("reports", "warm", TRUE, "", FALSE, FALSE, TRUE, 2 * Second),
      Task("cache", "daily", FALSE, "", TRUE, TRUE, FALSE, 0),
      Task("reports", "daily", TRUE, "every day", FALSE, FALSE, FALSE, 0) }

\* os.Args of the host process.
ArgVectors ==
    { <<"host">>, <<"host", "cache">>, <<"host", "cache", "warm", "extra">> }
    \cup { <<"host", g, n>> : g \in Groups, n \in Names }

\* What Config.GetRequiredBool answers: (enabled, error).
Answer(asked, enabled, failed, path) ==
    [asked |-> asked, enabled |-> enabled, failed |-> failed, path |-> path]
NotAsked == Answer(FALSE, FALSE, FALSE, "")

\* t.config == nil
NoConfig == <<>>

\* The configuration sources a host may set: each answers every path
\* cbcli.<group>.<name>; over the three of them the paths of the schedulable
\* tasks are denied, allowed, and undefined with either boolean.
Paths == << "cbcli.cache.warm", "cbcli.reports.daily", "cbcli.cache.daily", "cbcli.reports.warm" >>
AnswerCycle(path) ==
    << Answer(TRUE, FALSE, FALSE, path), Answer(TRUE, TRUE, FALSE, path),
       Answer(TRUE, FALSE, TRUE, path), Answer(TRUE, TRUE, TRUE, path) >>
ConfigCatalog ==
    { [p \in 1..Len(Paths) |-> AnswerCycle(Paths[p])[((p + q) % 4) + 1]] : q \in {0, 2, 3} }

EnvSets == { <<"MODE=cron">> }

-----------------------------------------------------------------------------
(* Pure parts of the code *)

\* fmt.Sprintf("cbcli.%s.%s", group, name)
ConfigPath(group, name) == "cbcli." \o group \o "." \o name

MatchesNameOnly(task, group, name) == task.name = name

\* task.GetGroup() == group && task.GetName() == name
Matches(task, group, name) == task.group = group /\ task.name = name

\* for _, task := range t.tasks { if ...match... }: the index of the first
\* match at or after i, 0 when the scan runs off the end.
RECURSIVE ScanFrom(_, _, _, _)
ScanFrom(ts, i, group, name) ==
    IF i > Len(ts) THEN 0
    ELSE IF Matches(ts[i], group, name) THEN i
    ELSE ScanFrom(ts, i + 1, group, name)

RECURSIVE ScanLast(_, _, _, _, _)
ScanLast(ts, i, group, name, found) ==
    IF i > Len(ts) THEN found
    ELSE ScanLast(ts, i + 1, group, name,
                  IF Matches(ts[i], group, name) THEN i ELSE found)
LookupLast(ts, group, name) == ScanLast(ts, 1, group, name, 0)

\* RunTask's scan of t.tasks from the front
Lookup(ts, group, name) == ScanFrom(ts, 1, group, name)

\* if t.config != nil { enabled, e := t.config.GetRequiredBool(path) }
GetRequiredBool(cfg, path) ==
    IF cfg = NoConfig THEN NotAsked
    ELSE LET p == CHOOSE p \in 1..Len(Paths) : Paths[p] = path IN cfg[p]

GateDeniesOnError(answer) == answer.asked /\ answer.failed /\ ~answer.enabled
GateDeniesIgnoringError(answer) == answer.asked /\ ~answer.enabled

\* if e == nil && !enabled { skip }
GateDenies(answer) == answer.asked /\ ~answer.failed /\ ~answer.enabled

\* if errorAfterTask, ok := task.(ErrorAfterDurationTask); ok { go func ... }
HasWatchdog(v, task) == v = "cli" /\ task.isErrorAfter

ThresholdExceeded(elapsed, task) == elapsed > task.errorAfter

\* elapsed >= errorAfterTask.GetErrorAfterDuration()
ThresholdReached(elapsed, task) == elapsed >= task.errorAfter

\* fmt.Errorf("task still running after expected duration: %s:%s %ds", ...)
WatchdogError(task) ==
    Err("task still running after expected duration",
        task.group, task.name, task.errorAfter \div Second)

LogRunning(task) == "Running task (" \o task.group \o ":" \o task.name \o ")"
LogFinished(task) == "Finished running task (" \o task.group \o ":" \o task.name \o ")"
LogNotFound(group, name) == "Task " \o group \o ":" \o name \o " not found"
LogNotEnough == "Not enough arguments, expecting: taskGroup taskName"
NotEnabledError(group, name) == Err("is not enabled", group, name, 0)
LogNotEnabled(group, name) == "Task " \o group \o ":" \o name \o " is not enabled"


SchedulableUnlessManual(task) == task.isScheduled /\ task.schedule # "manual"

\* scheduledTask, isScheduled := task.(ScheduledTask); schedule "manual" and ""
\* are never dispatched (cli.go 202-208, part_000 118-120).
Schedulable(task) == task.isScheduled /\ task.schedule \notin {"manual", ""}

\* crontab.AddFunc(expression, callback) returns an error for an expression the
\* standard five-field parser of the cron engine rejects.
CronParses(expression) == expression \in {"* * * * *", "0 0 * * *"}
CronError(ts, i) == Err("cron: bad expression", ts[i].group, ts[i].name, i)

\* isGoroutineTask (cli.go 217-221)
IsGoroutineTask(v, task) ==
    v = "cli" /\ task.isGoroutineConfigurable /\ task.inGoroutine

ChildArgsWithToken(v, task) == <<"start-task", task.group, task.name>>

\* exec.Command(executable, ...): the arguments after the program path
ChildArgs(v, task) ==
    IF v = "cli" THEN <<task.group, task.name>>
    ELSE <<"start-task", task.group, task.name>>

\* cmd.Env = t.dispatchEnvs
ChildEnv(v, envs) == IF v = "cli" THEN envs ELSE <<>>

\* defaultErrorHandler.Recover called as a plain statement: recover() yields
\* nil outside a deferred call, and the handler reports fmt.Sprint(nil).
RecoverReport == Err("<nil>", "", "", 0)

LogDispatching(task) == "Dispatching task (" \o task.group \o ":" \o task.name \o ")"
ExecutableError == Err("os.Executable failed", "", "", 0)
StartError == Err("exec: no command", "", "", 0)
ExitError(code) == Err("exit status", "", "", code)

-----------------------------------------------------------------------------
(* Invocations *)

\* One invocation of RunTask (origin "direct"), of Execute (origin "execute")
\* or of the goroutine of an inline firing (origin "inline").
NewCall(origin, group, name, answer) ==
    [origin |-> origin, group |-> group, name |-> name, gate |-> answer,
     argc |-> 0,          \* len(os.Args) of an Execute invocation
     scanned |-> FALSE,   \* the scan of RunTask was entered
     task |-> 0,          \* index of the task the scan resolved, 0 = none
     pc |-> "enter",      \* enter, start, run, done, panicked
     running |-> "nil",   \* the *bool: nil, true, false
     ran |-> <<>>,        \* indexes of the tasks whose Run() was called
     e |-> Unset,         \* what Run() returned
     ret |-> Unset,       \* what RunTask returned
     out |-> Unset,       \* what Execute returned
     wpc |-> "none",      \* watchdog goroutine: none, sleep, done, panicked
     elapsed |-> 0,
     wseen |-> "none",    \* runner's pc when the watchdog crossed its threshold
     reports |-> <<>>,    \* ErrorHandler.Error calls of the watchdog
     errs |-> <<>>,       \* ErrorHandler.Error calls of the caller
     log |-> <<>>]        \* Logger.InfoF calls, in order

EnterRunTaskLogsFinished(c, ts, v) ==
    LET i == Lookup(ts, c.group, c.name) IN
    IF i = 0
    THEN [c EXCEPT !.scanned = TRUE, !.pc = "done", !.ret = TaskNotFound]
    ELSE [c EXCEPT !.scanned = TRUE, !.pc = "start", !.task = i,
                   !.wpc = IF HasWatchdog(v, ts[i]) THEN "sleep" ELSE "none",
                   !.log = Append(Append(@, LogFinished(ts[i])), LogRunning(ts[i]))]

\* RunTask up to and including the "Running task" log.
EnterRunTask(c, ts, v) ==
    LET i == Lookup(ts, c.group, c.name) IN
    IF i = 0
    THEN [c EXCEPT !.scanned = TRUE, !.pc = "done", !.ret = TaskNotFound]
    ELSE [c EXCEPT !.scanned = TRUE, !.pc = "start", !.task = i,
                   !.wpc = IF HasWatchdog(v, ts[i]) THEN "sleep" ELSE "none",
                   !.log = Append(@, LogRunning(ts[i]))]

ExecuteReportsNotFound(c, v) ==
    IF c.ret = Nil
    THEN [c EXCEPT !.out = IF v = "cli" THEN Nil ELSE Unset]
    ELSE [c EXCEPT !.errs = Append(@, c.ret),
                   !.out = IF v = "cli" THEN c.ret ELSE Unset]

\* Execute after RunTask returned (cli.go 141-153, part_000 83-91).
ExecuteAfterRun(c, v) ==
    IF c.ret = Nil
    THEN [c EXCEPT !.out = IF v = "cli" THEN Nil ELSE Unset]
    ELSE IF c.ret = TaskNotFound
    THEN [c EXCEPT !.log = Append(@, LogNotFound(c.group, c.name)),
                   !.out = IF v = "cli" THEN Nil ELSE Unset]
    ELSE [c EXCEPT !.errs = Append(@, c.ret),
                   !.out = IF v = "cli" THEN c.ret ELSE Unset]

\* The inline goroutine after RunTask returned (cli.go 226-228).
InlineAfterRun(c) ==
    IF c.ret # Nil THEN [c EXCEPT !.errs = Append(@, c.ret)] ELSE c

\* What the caller of RunTask does with its result.
AfterRun(c, v) ==
    IF c.pc # "done" THEN c
    ELSE IF c.origin = "execute" THEN ExecuteAfterRun(c, v)
    ELSE IF c.origin = "inline" THEN InlineAfterRun(c)
    ELSE c

\* os.Exit(1) / os.Exit(0) of the legacy Execute.
ExitAfter(c, v) ==
    IF v = "legacy" /\ c.origin = "execute" /\ c.pc = "done"
    THEN IF c.ret = Nil THEN "exit0" ELSE "exit1"
    ELSE "alive"

-----------------------------------------------------------------------------
Init ==
    /\ variant \in {"cli", "legacy"}
    /\ phase = "setup"
    /\ tasks = <<>>
    /\ config = NoConfig
    /\ dispatchEnvs = <<>>
    /\ crontab = <<>>
    /\ started = FALSE
    /\ regErrors = <<>>
    /\ calls = <<>>
    /\ firings = <<>>
    /\ proc = "alive"

\* The place of a task's identity in the order in which the host registers
\* identities.  Lookup compares identities only, so the order of two tasks
\* matters when they share one; tasks that share an identity are registered
\* in either order.
RegistrationRank(task) ==
    CHOOSE p \in 1..Len(Paths) : Paths[p] = ConfigPath(task.group, task.name)

\* func (t *TaskContainer) AddTask(task Task); the host registers each of its
\* tasks once, identity by identity, and the legacy Task interface requires
\* GetSchedule.
AddTask(task) ==
    /\ proc = "alive" /\ phase = "setup"
    /\ Len(tasks) < MaxTasks
    /\ \A i \in 1..Len(tasks) :
          tasks[i] # task /\ RegistrationRank(tasks[i]) <= RegistrationRank(task)
    /\ variant = "legacy" => task.isScheduled
    /\ tasks' = Append(tasks, task)
    /\ UNCHANGED <<variant, phase, config, dispatchEnvs, crontab, started,
                   regErrors, calls, firings, proc>>

\* func (t *TaskContainer) SetConfig(config Config)
SetConfig(cfg) ==
    /\ proc = "alive" /\ phase = "setup"
    /\ variant = "cli"
    /\ config = NoConfig
    /\ config' = cfg
    /\ UNCHANGED <<variant, phase, tasks, dispatchEnvs, crontab, started,
                   regErrors, calls, firings, proc>>

\* func (t *TaskContainer) SetDispatchEnvironment(envs []string)
SetDispatchEnvironment(envs) ==
    /\ proc = "alive" /\ phase = "setup"
    /\ variant = "cli"
    /\ dispatchEnvs = <<>>
    /\ dispatchEnvs' = envs
    /\ UNCHANGED <<variant, phase, tasks, config, crontab, started,
                   regErrors, calls, firings, proc>>

\* func (t *TaskContainer) RunTask(group, name string) error, called by the host
RunTask(group, name) ==
    /\ proc = "alive" /\ phase = "setup"
    /\ LET c == AfterRun(EnterRunTask(NewCall("direct", group, name, NotAsked),
                                      tasks, variant), variant)
       IN calls' = Append(calls, c)
    /\ phase' = "direct"
    /\ UNCHANGED <<variant, tasks, config, dispatchEnvs, crontab, started,
                   regErrors, firings, proc>>

\* func (t *TaskContainer) Execute() error, up to the return of the scan
ExecuteCall(args, answer) ==
    IF Len(args) > 2
    THEN LET c == [NewCall("execute", args[2], args[3], answer) EXCEPT
                       !.argc = Len(args)] IN
         IF GateDenies(answer)
         THEN [c EXCEPT !.pc = "done",
                        !.log = Append(@, LogNotEnabled(c.group, c.name)),
                        !.out = NotEnabledError(c.group, c.name)]
         ELSE EnterRunTask(c, tasks, variant)
    ELSE [NewCall("execute", "", "", NotAsked) EXCEPT
              !.argc = Len(args),
              !.pc = "done", !.log = Append(@, LogNotEnough), !.out = Nil]

Execute(args) ==
    /\ proc = "alive" /\ phase = "setup"
    /\ LET answer == IF Len(args) > 2
                      THEN GetRequiredBool(config, ConfigPath(args[2], args[3]))
                      ELSE NotAsked
           c == ExecuteCall(args, answer)
       IN /\ calls' = Append(calls, IF c.ret = Unset THEN c ELSE AfterRun(c, variant))
          /\ proc' = IF c.ret = Unset THEN "alive" ELSE ExitAfter(c, variant)
    /\ phase' = "execute"
    /\ UNCHANGED <<variant, tasks, config, dispatchEnvs, crontab, started,
                   regErrors, firings>>

\* running = &trueVariable; e := task.Run() is entered
SetRunning(k) ==
    /\ proc = "alive"
    /\ calls[k].pc = "start"
    /\ calls' = [calls EXCEPT ![k].pc = "run", ![k].running = "true",
                              ![k].ran = Append(@, calls[k].task)]
    /\ UNCHANGED <<variant, phase, tasks, config, dispatchEnvs, crontab, started,
                   regErrors, firings, proc>>

FinishSwallowsError(c, e) ==
    [c EXCEPT !.pc = "done", !.running = "false", !.e = e, !.ret = Nil,
              !.log = Append(@, LogFinished(tasks[c.task]))]

\* Run() returns e; running = &falseVariable; "Finished" log; return e
Finish(c, e) ==
    [c EXCEPT !.pc = "done", !.running = "false", !.e = e, !.ret = e,
              !.log = Append(@, LogFinished(tasks[c.task]))]

RunReturns(k, ok) ==
    /\ proc = "alive"
    /\ calls[k].pc = "run"
    /\ LET c == Finish(calls[k], IF ok THEN Nil ELSE RunError(tasks, calls[k].task))
       IN /\ calls' = [calls EXCEPT ![k] = AfterRun(c, variant)]
          /\ proc' = ExitAfter(c, variant)
    /\ UNCHANGED <<variant, phase, tasks, config, dispatchEnvs, crontab, started,
                   regErrors, firings>>

\* Run() panics.  No function on the goroutine's stack has deferred a recover
\* (Execute and RunTask defer nothing, and the inline goroutine calls
\* t.errors.Recover() as a plain statement before RunTask), so the panic ends
\* the process and with it every goroutine: only the record of the panicking
\* invocation is kept.
RunPanics(k) ==
    /\ proc = "alive"
    /\ calls[k].pc = "run"
    /\ calls' = << [calls[k] EXCEPT !.pc = "panicked"] >>
    /\ firings' = <<>>
    /\ proc' = "panic: Run"
    /\ UNCHANGED <<variant, phase, tasks, config, dispatchEnvs, crontab, started,
                   regErrors>>

WatchdogTurnSharedFlag(c, task) ==
    LET el == c.elapsed + Second
        last == calls[Len(calls)]
        flag == IF last.task = c.task THEN last.running ELSE c.running
    IN IF ~ThresholdReached(el, task)
       THEN [c EXCEPT !.elapsed = el]
       ELSE IF flag = "nil"
       THEN [c EXCEPT !.elapsed = el, !.wseen = c.pc, !.wpc = "panicked"]
       ELSE IF flag = "true"
       THEN [c EXCEPT !.elapsed = el, !.wseen = c.pc, !.wpc = "done",
                      !.reports = Append(@, WatchdogError(task))]
       ELSE [c EXCEPT !.elapsed = el, !.wseen = c.pc, !.wpc = "done"]

WatchdogTurnForgetsElapsed(c, task) ==
    IF ~ThresholdReached(Second, task)
    THEN c
    ELSE IF c.running = "nil"
    THEN [c EXCEPT !.elapsed = Second, !.wseen = c.pc, !.wpc = "panicked"]
    ELSE IF c.running = "true"
    THEN [c EXCEPT !.elapsed = Second, !.wseen = c.pc, !.wpc = "done",
                   !.reports = Append(@, WatchdogError(task))]
    ELSE [c EXCEPT !.elapsed = Second, !.wseen = c.pc, !.wpc = "done"]

\* One turn of the watchdog loop (cli.go 166-181).  *running with running
\* still nil is a nil pointer dereference: a panic in the watchdog goroutine.
WatchdogTurn(c, task) ==
    LET el == c.elapsed + Second IN
    IF ~ThresholdReached(el, task)
    THEN [c EXCEPT !.elapsed = el]
    ELSE IF c.running = "nil"
    THEN [c EXCEPT !.elapsed = el, !.wseen = c.pc, !.wpc = "panicked"]
    ELSE IF c.running = "true"
    THEN [c EXCEPT !.elapsed = el, !.wseen = c.pc, !.wpc = "done",
                   !.reports = Append(@, WatchdogError(task))]
    ELSE [c EXCEPT !.elapsed = el, !.wseen = c.pc, !.wpc = "done"]

WatchdogSleep(k) ==
    /\ proc = "alive"
    /\ calls[k].wpc = "sleep"
    /\ LET c == WatchdogTurn(calls[k], tasks[calls[k].task])
       IN IF c.wpc = "panicked"
          THEN /\ calls' = <<c>>
               /\ firings' = <<>>
               /\ proc' = "panic: nil pointer dereference"
          ELSE /\ calls' = [calls EXCEPT ![k] = c]
               /\ UNCHANGED <<firings, proc>>
    /\ UNCHANGED <<variant, phase, tasks, config, dispatchEnvs, crontab, started,
                   regErrors>>

RECURSIVE RegisterStopsAtError(_, _, _, _, _)
RegisterStopsAtError(ts, cfg, i, ct, errs) ==
    IF i > Len(ts) THEN [crontab |-> ct, errors |-> errs]
    ELSE IF ~Schedulable(ts[i]) THEN RegisterStopsAtError(ts, cfg, i + 1, ct, errs)
    ELSE IF GateDenies(GetRequiredBool(cfg, ConfigPath(ts[i].group, ts[i].name)))
    THEN RegisterStopsAtError(ts, cfg, i + 1, ct, errs)
    ELSE IF CronParses(ts[i].schedule)
    THEN RegisterStopsAtError(ts, cfg, i + 1, Append(ct, i), errs)
    ELSE [crontab |-> ct, errors |-> Append(errs, CronError(ts, i))]

\* The loop of DispatchTasks over t.tasks from index i on; `ct` and `errs` are
\* the crontab entries and the Error calls so far.
RECURSIVE RegisterFrom(_, _, _, _, _)
RegisterFrom(ts, cfg, i, ct, errs) ==
    IF i > Len(ts) THEN [crontab |-> ct, errors |-> errs]
    ELSE IF ~Schedulable(ts[i]) THEN RegisterFrom(ts, cfg, i + 1, ct, errs)
    ELSE IF GateDenies(GetRequiredBool(cfg, ConfigPath(ts[i].group, ts[i].name)))
    THEN RegisterFrom(ts, cfg, i + 1, ct, errs)
    ELSE IF CronParses(ts[i].schedule)
    THEN RegisterFrom(ts, cfg, i + 1, Append(ct, i), errs)
    ELSE RegisterFrom(ts, cfg, i + 1, ct, Append(errs, CronError(ts, i)))

\* func (t *TaskContainer) DispatchTasks()
DispatchTasks ==
    /\ proc = "alive" /\ phase = "setup"
    /\ LET r == RegisterFrom(tasks, config, 1, <<>>, <<>>) IN
         /\ crontab' = r.crontab
         /\ regErrors' = r.errors
    /\ started' = TRUE
    /\ phase' = "dispatch"
    /\ UNCHANGED <<variant, tasks, config, dispatchEnvs, calls, firings, proc>>

\* One invocation of the callback given to AddFunc.
NewFiring(i, mode) ==
    [task |-> i, mode |-> mode,
     pc |-> "returned",   \* child: cmd.Run() is waiting; returned: callback is over
     call |-> 0,          \* the invocation an inline firing started
     args |-> <<>>, env |-> <<>>,   \* of exec.Command
     exit |-> -1,         \* the child's exit status, -1 while there is none
     failedBefore |-> \E m \in 1..Len(firings) : firings[m].errs # <<>>,
     \* what the config would answer now; the callback does not ask
     denied |-> GateDenies(GetRequiredBool(config, ConfigPath(tasks[i].group, tasks[i].name))),
     errs |-> <<>>,       \* ErrorHandler.Error calls of the callback
     log |-> <<LogDispatching(tasks[i])>>]

InlineCallRunsItself(task) ==
    LET i == CHOOSE i \in 1..Len(tasks) : tasks[i] = task IN
    [NewCall("inline", task.group, task.name, NotAsked) EXCEPT
         !.errs = <<RecoverReport>>,
         !.scanned = TRUE, !.pc = "start", !.task = i,
         !.wpc = IF HasWatchdog(variant, task) THEN "sleep" ELSE "none",
         !.log = Append(@, LogRunning(task))]

InlineCallGated(task) ==
    LET answer == GetRequiredBool(config, ConfigPath(task.group, task.name))
        c == [NewCall("inline", task.group, task.name, answer)
                  EXCEPT !.errs = <<RecoverReport>>]
    IN IF GateDenies(answer) THEN [c EXCEPT !.pc = "done"]
       ELSE EnterRunTask(c, tasks, variant)

\* The goroutine of an inline firing: t.errors.Recover(), then RunTask.
InlineCall(task) ==
    EnterRunTask([NewCall("inline", task.group, task.name, NotAsked)
                      EXCEPT !.errs = <<RecoverReport>>],
                 tasks, variant)

FireInlineUnlessActive(j) ==
    /\ proc = "alive" /\ started
    /\ Len(firings) < MaxFirings
    /\ IsGoroutineTask(variant, tasks[crontab[j]])
    /\ \A m \in 1..Len(firings) :
          (firings[m].task = crontab[j] /\ firings[m].mode = "inline") =>
              calls[firings[m].call].pc = "done"
    /\ calls' = Append(calls, InlineCall(tasks[crontab[j]]))
    /\ firings' = Append(firings, [NewFiring(crontab[j], "inline") EXCEPT
                                       !.call = Len(calls) + 1])
    /\ UNCHANGED <<variant, phase, tasks, config, dispatchEnvs, crontab, started,
                   regErrors, proc>>

\* The callback fires for crontab entry j and runs the task inline.
FireInline(j) ==
    /\ proc = "alive" /\ started
    /\ Len(firings) < MaxFirings
    /\ IsGoroutineTask(variant, tasks[crontab[j]])
    /\ calls' = Append(calls, InlineCall(tasks[crontab[j]]))
    /\ firings' = Append(firings, [NewFiring(crontab[j], "inline") EXCEPT
                                       !.call = Len(calls) + 1])
    /\ UNCHANGED <<variant, phase, tasks, config, dispatchEnvs, crontab, started,
                   regErrors, proc>>

\* The callback fires for crontab entry j and re-invokes the host executable.
\* When os.Executable() fails the error is reported and the command is still
\* built, with an empty path, so that cmd.Run() fails too.
FireChild(j, executableOk) ==
    /\ proc = "alive" /\ started
    /\ Len(firings) < MaxFirings
    /\ ~IsGoroutineTask(variant, tasks[crontab[j]])
    /\ LET f == [NewFiring(crontab[j], "child") EXCEPT
                     !.args = ChildArgs(variant, tasks[crontab[j]]),
                     !.env = ChildEnv(variant, dispatchEnvs)] IN
       firings' = Append(firings,
           IF executableOk
           THEN [f EXCEPT !.pc = "child"]
           ELSE [f EXCEPT !.errs = <<ExecutableError, StartError>>])
    /\ UNCHANGED <<variant, phase, tasks, config, dispatchEnvs, crontab, started,
                   regErrors, calls, proc>>

\* cmd.Run() returns: the child exited with `code`.
ChildExits(m, code) ==
    /\ proc = "alive"
    /\ firings[m].pc = "child"
    /\ firings' = [firings EXCEPT ![m].pc = "returned", ![m].exit = code,
                                  ![m].errs = IF code = 0 THEN @
                                              ELSE Append(@, ExitError(code))]
    /\ UNCHANGED <<variant, phase, tasks, config, dispatchEnvs, crontab, started,
                   regErrors, calls, proc>>

Next ==
    \/ \E task \in TaskCatalog : AddTask(task)
    \/ \E cfg \in ConfigCatalog : SetConfig(cfg)
    \/ \E envs \in EnvSets : SetDispatchEnvironment(envs)
    \/ \E g \in Groups, n \in Names : RunTask(g, n)
    \/ \E args \in ArgVectors : Execute(args)
    \/ \E k \in 1..Len(calls) : SetRunning(k)
    \/ \E k \in 1..Len(calls), ok \in BOOLEAN : RunReturns(k, ok)
    \/ \E k \in 1..Len(calls) : RunPanics(k)
    \/ \E k \in 1..Len(calls) : WatchdogSleep(k)
    \/ DispatchTasks
    \/ \E j \in 1..Len(crontab) : FireInline(j)
    \/ \E j \in 1..Len(crontab), executableOk \in BOOLEAN : FireChild(j, executableOk)
    \/ \E m \in 1..Len(firings), code \in {0, 1} : ChildExits(m, code)

Spec == Init /\ [][Next]_vars

\* The Config collaborator is the host's object and its values can change
\* while the dispatcher runs: the value of path p, the path of a task whose
\* trigger is registered, flips from (true, nil) to (false, nil).
ConfigFlips(p) ==
    /\ proc = "alive" /\ phase = "dispatch"
    /\ config # NoConfig
    /\ config[p] = Answer(TRUE, TRUE, FALSE, Paths[p])
    /\ \E j \in 1..Len(crontab) :
          ConfigPath(tasks[crontab[j]].group, tasks[crontab[j]].name) = Paths[p]
    /\ config' = [config EXCEPT ![p] = Answer(TRUE, FALSE, FALSE, Paths[p])]
    /\ UNCHANGED <<variant, phase, tasks, dispatchEnvs, crontab, started,
                   regErrors, calls, firings, proc>>

NextFlip ==
    \/ Next
    \/ \E p \in 1..Len(Paths) : ConfigFlips(p)

\* The package with a configuration source whose values change over time.
FlipSpec == Init /\ [][NextFlip]_vars

\* The package under a host that sets neither a config nor a dispatch
\* environment (RunTask and its watchdog read neither; with no config every
\* task passes the gate).
FairNext ==
    \/ \E task \in TaskCatalog : AddTask(task)
    \/ \E g \in Groups, n \in Names : RunTask(g, n)
    \/ \E args \in ArgVectors : Execute(args)
    \/ \E k \in 1..Len(calls) : SetRunning(k)
    \/ \E k \in 1..Len(calls), ok \in BOOLEAN : RunReturns(k, ok)
    \/ \E k \in 1..Len(calls) : RunPanics(k)
    \/ \E k \in 1..Len(calls) : WatchdogSleep(k)
    \/ DispatchTasks
    \/ \E j \in 1..Len(crontab) : FireInline(j)
    \/ \E j \in 1..Len(crontab), executableOk \in BOOLEAN : FireChild(j, executableOk)
    \/ \E m \in 1..Len(firings), code \in {0, 1} : ChildExits(m, code)

\* The Go scheduler runs every runnable goroutine and cbutil.Sleep returns:
\* a watchdog that can take its next turn eventually takes it.  Nothing is
\* assumed about the runner, so Run() may go on forever.
FairSpec ==
    /\ Init /\ [][FairNext]_vars
    /\ \A k \in 1..MaxFirings : WF_vars(k \in 1..Len(calls) /\ WatchdogSleep(k))

-----------------------------------------------------------------------------
(* Properties *)

Registered == 1..Len(tasks)
Invocations == 1..Len(calls)

\* Task `task` has the identity (group, name).
HasIdentity(task, group, name) == task.group = group /\ task.name = name

\* Some registered task has the identity the invocation asked for.
IsRegistered(c) == \E i \in Registered : HasIdentity(tasks[i], c.group, c.name)

\* The "Running task"/"Finished running task" lines of any identity.
RunLogLines ==
    UNION { { "Running task (" \o g \o ":" \o n \o ")",
              "Finished running task (" \o g \o ":" \o n \o ")" } :
            g \in Groups, n \in Names }

C2_NotFound ==
    \A k \in Invocations :
        LET c == calls[k] IN
        (c.scanned /\ ~IsRegistered(c)) =>
            /\ c.pc = "done"
            /\ c.ret = TaskNotFound
            /\ c.task = 0
            /\ c.ran = <<>>
            /\ c.wpc = "none" /\ c.elapsed = 0 /\ c.reports = <<>>
            /\ \A j \in 1..Len(c.log) : c.log[j] \notin RunLogLines

\* A lookup failed in a registry that holds a task of the same name in
\* another group.
C2_Witness ==
    \E k \in Invocations :
        /\ calls[k].scanned /\ ~IsRegistered(calls[k])
        /\ calls[k].ret = TaskNotFound
        /\ \E i \in Registered : tasks[i].name = calls[k].name

\* C3: when several registered tasks share (g,n), RunTask(g,n) resolves to the
\* first-registered of them and runs no later one.
C3_FirstRegisteredWins ==
    \A k \in Invocations :
        LET c == calls[k] IN
        (c.scanned /\ IsRegistered(c)) =>
            /\ c.task \in Registered
            /\ HasIdentity(tasks[c.task], c.group, c.name)
            /\ \A i \in Registered :
                  HasIdentity(tasks[i], c.group, c.name) => c.task <= i
            /\ \A j \in 1..Len(c.ran) : c.ran[j] = c.task

\* A RunTask ran the first of two registered tasks with its identity.
C3_Witness ==
    \E k \in Invocations :
        /\ calls[k].pc = "done"
        /\ calls[k].ran = <<calls[k].task>>
        /\ \E i \in Registered :
              /\ i > calls[k].task
              /\ HasIdentity(tasks[i], calls[k].group, calls[k].name)

\* C4 (as claimed): a panic in Run() of an inline firing is recovered and
\* reported through the ErrorHandler, and the process stays alive.
C4_InlinePanicRecovered ==
    \A k \in Invocations :
        calls[k].origin = "inline" =>
            /\ calls[k].pc # "panicked"
            /\ proc # "panic: Run"

\* The config's answer for the path of registered task i.
ConfigSays(i) ==
    GetRequiredBool(config, "cbcli." \o tasks[i].group \o "." \o tasks[i].name)
SucceedsWithFalse(answer) == answer.asked /\ ~answer.failed /\ ~answer.enabled
FailsOpen(answer) == ~answer.asked \/ answer.failed
InCrontab(i) == \E j \in 1..Len(crontab) : crontab[j] = i

\* C5: when the set config answers (false, nil) for cbcli.<g>.<n>, Execute
\* for (g,n) returns without entering RunTask or any Run(), and DispatchTasks
\* registers no trigger for the task, which no firing then runs.
C5_DeniedNeverRuns ==
    /\ \A k \in Invocations :
          LET c == calls[k] IN
          (c.origin = "execute" /\ c.argc > 2) =>
              /\ config # NoConfig =>
                    /\ c.gate.asked
                    /\ c.gate.path = "cbcli." \o c.group \o "." \o c.name
              /\ SucceedsWithFalse(c.gate) =>
                    /\ c.pc = "done" /\ ~c.scanned
                    /\ c.task = 0 /\ c.ran = <<>> /\ c.wpc = "none"
    /\ \A i \in Registered :
          SucceedsWithFalse(ConfigSays(i)) =>
              /\ ~InCrontab(i)
              /\ \A m \in 1..Len(firings) : firings[m].task # i
              /\ \A k \in Invocations :
                    calls[k].origin = "inline" => calls[k].task # i

\* DispatchTasks left out a denied task that would otherwise have been
\* registered, and a trigger of another task has fired.
C5_Witness ==
    /\ phase = "dispatch"
    /\ firings # <<>>
    /\ \E i \in Registered :
          /\ SucceedsWithFalse(ConfigSays(i))
          /\ Schedulable(tasks[i]) /\ CronParses(tasks[i].schedule)

\* C6: when the config answers with an error (with either boolean) or no
\* config is set, Execute enters RunTask and runs the task, and DispatchTasks
\* registers the task's trigger by the same rule as for an enabled task.
C6_FailsOpen ==
    /\ \A k \in Invocations :
          LET c == calls[k] IN
          (c.origin = "execute" /\ c.argc > 2 /\ FailsOpen(c.gate)) =>
              /\ c.scanned
              /\ IsRegistered(c) => c.task \in Registered
              /\ (IsRegistered(c) /\ c.pc = "done") => c.ran = <<c.task>>
    /\ phase = "dispatch" =>
          \A i \in Registered :
              ~SucceedsWithFalse(ConfigSays(i)) =>
                  (InCrontab(i) <=>
                      (Schedulable(tasks[i]) /\ CronParses(tasks[i].schedule)))

\* Execute ran a task for which the config answered (false, error).
C6_Witness ==
    \E k \in Invocations :
        /\ calls[k].origin = "execute"
        /\ calls[k].gate.asked /\ calls[k].gate.failed /\ ~calls[k].gate.enabled
        /\ calls[k].pc = "done"
        /\ calls[k].ran # <<>>

NeverDispatched(task) == ~task.isScheduled \/ task.schedule \in {"", "manual"}

\* C8 (as claimed): no trigger is registered for such a task, and no firing
\* runs such a task.
C8_UnscheduledNeverFired ==
    /\ \A j \in 1..Len(crontab) : ~NeverDispatched(tasks[crontab[j]])
    /\ \A k \in Invocations :
          calls[k].origin = "inline" =>
              \A r \in 1..Len(calls[k].ran) : ~NeverDispatched(tasks[calls[k].ran[r]])

\* C8 (amended): DispatchTasks neither registers a trigger nor calls AddFunc
\* for such a task, and no callback fires for it; a firing runs such a task
\* only in place of a later-registered task of the same (group, name) whose
\* trigger is registered.
C8_NoTriggerForUnscheduled ==
    /\ \A j \in 1..Len(crontab) : ~NeverDispatched(tasks[crontab[j]])
    /\ \A j \in 1..Len(regErrors) : ~NeverDispatched(tasks[regErrors[j].n])
    /\ \A m \in 1..Len(firings) :
          /\ ~NeverDispatched(tasks[firings[m].task])
          /\ InCrontab(firings[m].task)
    /\ \A k \in Invocations :
          LET c == calls[k] IN
          (c.origin = "inline" /\ c.ran # <<>>) =>
              /\ c.ran = <<c.task>>
              /\ NeverDispatched(tasks[c.task]) =>
                    \E i \in Registered :
                        /\ i > c.task
                        /\ InCrontab(i)
                        /\ HasIdentity(tasks[i], tasks[c.task].group, tasks[c.task].name)

\* A firing ran a task that has no trigger, in place of a later-registered
\* task of the same identity.
C8_Witness ==
    /\ phase = "dispatch"
    /\ \E k \in Invocations :
          /\ calls[k].origin = "inline"
          /\ calls[k].ran # <<>>
          /\ NeverDispatched(tasks[calls[k].task])
          /\ ~InCrontab(calls[k].task)

\* Some callback has reported an error.
SomeFiringFailed == \E m \in 1..Len(firings) : firings[m].errs # <<>>

\* C9: in the cli build a firing of a task that does not execute inline
\* builds the command <executable> g n, which Execute reads as group g and
\* name n, with the configured environment; a launch error or non-zero exit
\* is reported through the ErrorHandler, and afterwards every trigger can
\* still fire.
C9_ChildFiring ==
    /\ \A m \in 1..Len(firings) :
          LET f == firings[m]
              task == tasks[f.task]
          IN (variant = "cli" /\ f.mode = "child") =>
                /\ ~(task.isGoroutineConfigurable /\ task.inGoroutine)
                /\ f.args = <<task.group, task.name>>
                /\ LET c == ExecuteCall(<<"host">> \o f.args, NotAsked)
                   IN c.argc = 3 /\ c.group = task.group /\ c.name = task.name
                /\ f.env = dispatchEnvs
                /\ f.pc = "child" => f.exit = -1 /\ f.errs = <<>>
                /\ f.pc = "returned" =>
                      /\ f.exit = 0 => f.errs = <<>>
                      /\ f.exit > 0 => f.errs = <<ExitError(f.exit)>>
                      /\ f.exit < 0 => f.errs = <<ExecutableError, StartError>>
    /\ (variant = "cli" /\ SomeFiringFailed) =>
          /\ proc = "alive" /\ started
          /\ Len(firings) < MaxFirings =>
                \A j \in 1..Len(crontab) :
                    ENABLED (FireInline(j) \/ FireChild(j, TRUE))

\* A child was spawned with the configured environment after an earlier
\* firing had failed.
C9_Witness ==
    /\ variant = "cli"
    /\ \E m \in 1..Len(firings) :
          /\ firings[m].mode = "child"
          /\ firings[m].pc = "child"
          /\ firings[m].failedBefore
          /\ firings[m].env # <<>>

IsFailure(e) == e # Nil /\ e # Unset

C11_LogOrder ==
    \A k \in Invocations :
        LET c == calls[k] IN
        c.task # 0 =>
            LET running == "Running task (" \o tasks[c.task].group \o ":" \o tasks[c.task].name \o ")"
                finished == "Finished running task (" \o tasks[c.task].group \o ":" \o tasks[c.task].name \o ")"
            IN /\ c.pc = "start" =>
                     c.log = <<running>> /\ c.ran = <<>> /\ c.e = Unset
               /\ c.pc \in {"run", "panicked"} =>
                     c.log = <<running>> /\ c.ran = <<c.task>> /\ c.e = Unset
               /\ c.pc = "done" =>
                     c.log = <<running, finished>> /\ c.ran = <<c.task>> /\ c.e # Unset

\* One invocation has logged "Finished" while another invocation of the same
\* task, started earlier, is still inside Run().
C11_Witness ==
    \E k1 \in Invocations, k2 \in Invocations :
        /\ k1 < k2
        /\ calls[k1].task = calls[k2].task /\ calls[k1].task # 0
        /\ calls[k1].pc = "run"
        /\ calls[k2].pc = "done" /\ Len(calls[k2].log) = 2

\* The runner of invocation k is about to write its running flag
\* (running = &trueVariable or running = &falseVariable).
FlagWritePending(k) == ENABLED (SetRunning(k) \/ \E ok \in BOOLEAN : RunReturns(k, ok))

\* The next turn of invocation k's watchdog crosses the threshold and reads
\* the flag.
FlagReadPending(k) ==
    /\ ENABLED WatchdogSleep(k)
    /\ ThresholdReached(calls[k].elapsed + Second, tasks[calls[k].task])

\* C12 (as claimed): the runner's writes of the running flag and the
\* watchdog's read of it are ordered by synchronization, so that the write
\* and the read are never both pending with either order possible.
C12_FlagAccessSynchronized ==
    \A k \in Invocations : ~(FlagWritePending(k) /\ FlagReadPending(k))

\* C13: under fair scheduling the watchdog of every invocation stops (or the
\* process has ended), whether its Run() has finished, is executing or never
\* finishes; it stops at the first whole second at or after its threshold,
\* and once stopped it sleeps, checks and reports no more.
C13_WatchdogTerminates ==
    /\ \A k \in 1..MaxFirings :
          (k \in Invocations /\ calls[k].wpc = "sleep")
              ~> (proc # "alive" \/ (k \in Invocations /\ calls[k].wpc = "done"))
    /\ [](\A k \in Invocations :
             /\ Len(calls[k].reports) <= 1
             /\ calls[k].wpc = "done" =>
                   /\ calls[k].elapsed >= tasks[calls[k].task].errorAfter
                   /\ calls[k].elapsed - Second < tasks[calls[k].task].errorAfter)
    /\ [][\A k \in Invocations :
             (calls[k].wpc = "done" /\ proc' = "alive") =>
                 /\ calls'[k].wpc = "done"
                 /\ calls'[k].elapsed = calls[k].elapsed
                 /\ calls'[k].reports = calls[k].reports]_vars

\* A watchdog that needed two sleeps has stopped with its one report while
\* its Run() is still executing.
C13_Witness ==
    \E k \in Invocations :
        /\ calls[k].wpc = "done"
        /\ calls[k].elapsed = 2 * Second
        /\ calls[k].pc = "run"
        /\ Len(calls[k].reports) = 1

\* C14: the config is asked about a task only while DispatchTasks registers
\* triggers.  A value that becomes false afterwards leaves the crontab as it
\* is, every registered trigger can still fire, and an inline firing enters
\* RunTask and Run() without asking the config.
C14_GateOnlyAtRegistration ==
    /\ [][phase = "dispatch" => crontab' = crontab]_vars
    /\ []((phase = "dispatch" /\ proc = "alive" /\ Len(firings) < MaxFirings) =>
             \A j \in 1..Len(crontab) :
                 ENABLED (FireInline(j) \/ FireChild(j, TRUE)))
    /\ [](\A m \in 1..Len(firings) :
             /\ InCrontab(firings[m].task)
             /\ firings[m].mode = "child" => firings[m].args # <<>>
             /\ firings[m].mode = "inline" =>
                   LET c == calls[firings[m].call] IN
                   /\ ~c.gate.asked
                   /\ c.scanned /\ c.task # 0
                   /\ c.pc = "start" => ENABLED SetRunning(firings[m].call))

\* A trigger fired when the config value of its task had become false, and
\* the inline invocation it started has entered Run().
C14_Witness ==
    \E m \in 1..Len(firings) :
        /\ firings[m].denied
        /\ firings[m].mode = "inline"
        /\ calls[firings[m].call].ran # <<>>

\* Task i passes the schedule filter and the gate of DispatchTasks.
Eligible(i) == ~NeverDispatched(tasks[i]) /\ ~SucceedsWithFalse(ConfigSays(i))
WellFormed(i) == tasks[i].schedule \in {"* * * * *", "0 0 * * *"}

\* C15: when DispatchTasks has returned, every eligible task with a
\* malformed cron expression has been reported once through the
\* ErrorHandler and has no trigger, every eligible task with a well-formed
\* expression has its trigger, before or after a malformed one, the cron
\* engine is started, and no firing belongs to a malformed task.
C15_MalformedReported ==
    phase = "dispatch" =>
        /\ started
        /\ \A i \in Registered :
              /\ InCrontab(i) <=> (Eligible(i) /\ WellFormed(i))
              /\ (\E j \in 1..Len(regErrors) : regErrors[j].n = i)
                    <=> (Eligible(i) /\ ~WellFormed(i))
        /\ \A j \in 1..Len(regErrors) :
              /\ regErrors[j].kind = "cron: bad expression"
              /\ regErrors[j].n \in Registered
              /\ \A j2 \in 1..Len(regErrors) : regErrors[j2].n = regErrors[j].n => j2 = j
        /\ \A j \in 1..Len(crontab) :
              \A j2 \in 1..Len(crontab) : crontab[j2] = crontab[j] => j2 = j
        /\ \A m \in 1..Len(firings) : WellFormed(firings[m].task)

\* A malformed expression was reported, the task registered after it has
\* its trigger, and that trigger has fired.
C15_Witness ==
    /\ phase = "dispatch" /\ started
    /\ \E j \in 1..Len(regErrors), m \in 1..Len(firings) :
          /\ firings[m].task > regErrors[j].n
          /\ InCrontab(firings[m].task)

\* C16: a callback that re-invokes the executable has returned only when the
\* launch failed or the child has exited; a callback that runs the task
\* inline has returned as soon as its goroutine is started, whatever that
\* goroutine's Run() does; and while Run() of an inline firing is executing
\* the same trigger can fire again and start another Run().
C16_BlockingAndOverlap ==
    \A m \in 1..Len(firings) :
        LET f == firings[m] IN
        /\ f.mode = "child" =>
              /\ f.pc \in {"child", "returned"}
              /\ f.pc = "child" => f.exit = -1
              /\ f.pc = "returned" =>
                    \/ f.exit >= 0
                    \/ \E e \in 1..Len(f.errs) : f.errs[e].kind = "exec: no command"
        /\ f.mode = "inline" =>
              /\ f.pc = "returned"
              /\ f.call \in Invocations
              /\ (calls[f.call].pc \in {"start", "run"} /\ Len(firings) < MaxFirings) =>
                    \A j \in 1..Len(crontab) :
                        crontab[j] = f.task => ENABLED FireInline(j)

\* Two firings of one inline trigger are both inside Run(), their callbacks
\* returned.
C16_Witness ==
    \E m1 \in 1..Len(firings), m2 \in 1..Len(firings) :
        /\ m1 # m2
        /\ firings[m1].task = firings[m2].task
        /\ firings[m1].mode = "inline" /\ firings[m2].mode = "inline"
        /\ calls[firings[m1].call].pc = "run"
        /\ calls[firings[m2].call].pc = "run"

\* C17 (as claimed): the watchdog evaluates *running only after the runner
\* has assigned the flag; it never dereferences the nil pointer.
C17_WatchdogNeverDerefsNil ==
    /\ proc # "panic: nil pointer dereference"
    /\ \A k \in Invocations :
          /\ calls[k].wpc # "panicked"
          /\ calls[k].wpc = "done" => calls[k].wseen # "start"

\* C18 (as claimed): an inline firing whose Run() returned nil has made no
\* call of ErrorHandler.Error; an inline firing calls it only for the error
\* Run() returned.
C18_InlineSuccessNoReport ==
    \A k \in Invocations :
        LET c == calls[k] IN
        (c.origin = "inline" /\ c.pc = "done") =>
            /\ c.e = Nil => c.errs = <<>>
            /\ \A j \in 1..Len(c.errs) : c.errs[j] = c.e

\* C19 (as claimed): every inline firing of the trigger of task T calls Run()
\* on T itself and on no other task, whatever the registry holds.
C19_InlineRunsItself ==
    \A m \in 1..Len(firings) :
        firings[m].mode = "inline" =>
            LET c == calls[firings[m].call] IN
            /\ c.task = firings[m].task
            /\ \A r \in 1..Len(c.ran) : c.ran[r] = firings[m].task

\* C19 (amended): every inline firing of the trigger of task T calls Run()
\* on the first-registered task that has T's (group, name) and on no other
\* task; that task is T itself exactly when no task registered before T has
\* T's (group, name).
C19_InlineRunsFirstMatch ==
    \A m \in 1..Len(firings) :
        firings[m].mode = "inline" =>
            LET c == calls[firings[m].call]
                T == tasks[firings[m].task]
            IN /\ c.task \in Registered
               /\ HasIdentity(tasks[c.task], T.group, T.name)
               /\ \A i \in Registered : HasIdentity(tasks[i], T.group, T.name) => c.task <= i
               /\ \A r \in 1..Len(c.ran) : c.ran[r] = c.task
               /\ c.task = firings[m].task <=>
                     ~\E i \in Registered :
                          i < firings[m].task /\ HasIdentity(tasks[i], T.group, T.name)

\* An inline firing of a trigger has run to its end the Run() of a task
\* registered before the trigger's own task.
C19_Witness ==
    \E m \in 1..Len(firings) :
        /\ firings[m].mode = "inline"
        /\ calls[firings[m].call].task < firings[m].task
        /\ calls[firings[m].call].ran = <<calls[firings[m].call].task>>
        /\ calls[firings[m].call].pc = "done"

\* C20: the running flag of an invocation follows that invocation alone, and
\* a watchdog that has made its threshold check has reported if and only if
\* the Run() of its own invocation was executing at that check, whatever
\* other invocations of the same task have started or finished.
C20_FlagPerInvocation ==
    \A k \in Invocations :
        LET c == calls[k] IN
        c.task # 0 =>
            /\ c.running = "nil" <=> c.pc = "start"
            /\ c.running = "true" <=> c.pc \in {"run", "panicked"}
            /\ c.running = "false" <=> c.pc = "done"
            /\ c.wpc \in {"done", "panicked"} =>
                  (c.reports # <<>> <=> c.wseen = "run")
            /\ c.wpc \in {"none", "sleep"} => c.reports = <<>>

\* Of two overlapping inline invocations of one task, the watchdog of the
\* one still inside Run() has reported and the watchdog of the finished one
\* has not.
C20_Witness ==
    \E k1 \in Invocations, k2 \in Invocations :
        /\ k1 # k2
        /\ calls[k1].origin = "inline" /\ calls[k2].origin = "inline"
        /\ calls[k1].task = calls[k2].task
        /\ calls[k1].pc = "run" /\ calls[k1].wpc = "done" /\ calls[k1].reports # <<>>
        /\ calls[k2].pc = "done" /\ calls[k2].wpc = "done" /\ calls[k2].reports = <<>>
====
